---------------------------- MODULE Spec2Model ----------------------------
(***************************************************************************)
(* Model of downsampling.py: the driver under `if __name__ == "__main__"`  *)
(* and the functions it calls, one action per call of the driver.          *)
(*                                                                         *)
(* Python strings are sequences of one-character strings, so that          *)
(* endswith, split and the regular expressions of the source are computed  *)
(* and not assumed.  The filesystem is the set of paths that exist.  An    *)
(* external tool is a nondeterministic choice of its exit status and of    *)
(* what it wrote.  bases/length is kept as the exact rational              *)
(* <<bases, length>> (Python rounds it to a double).  A command line is    *)
(* kept as the record of the values formatted into it.                     *)
(***************************************************************************)
EXTENDS Integers, Sequences, FiniteSets, TLC

VARIABLES
    args,           \* the argparse Namespace
    env,            \* which of `which`, mosdepth, sambamba are on the search path
    fs,             \* the paths that exist
    pc,             \* the call the driver makes next, "done" or "exited"
    logLevel,       \* the level name the root logger filters at
    log,            \* the records the logger emitted
    exitStatus,     \* -1 while running, then the exit status of the process
    exception,      \* the uncaught exception that ended the process, or "none"
    file_type, sampleID, tempFolder, dupRemovedBam, cov, fraction,
    downsampledBam, newCov,     \* the driver's locals
    report,         \* the lines of the summary file mosdepth wrote last
    started,        \* history: the stages started so far, in order
    failed,         \* history: the stage that detected a failure, or "none"
    calls           \* history: the external commands run through os.system

vars == <<args, env, fs, pc, logLevel, log, exitStatus, exception, file_type,
          sampleID, tempFolder, dupRemovedBam, cov, fraction, downsampledBam,
          newCov, report, started, failed, calls>>

\* Python's None, told apart from every string (the empty one included).
None == << "<None>" >>

\* The longest summary report the depth tool writes, in lines.
MaxRows == 2

-----------------------------------------------------------------------------
(* Strings *)

Max(S) == CHOOSE x \in S : \A y \in S : y <= x

Digits == {"0", "1", "2", "3", "4", "5", "6", "7", "8", "9"}

DigitVal(c) ==
    CASE c = "0" -> 0 [] c = "1" -> 1 [] c = "2" -> 2 [] c = "3" -> 3
      [] c = "4" -> 4 [] c = "5" -> 5 [] c = "6" -> 6 [] c = "7" -> 7
      [] c = "8" -> 8 [] c = "9" -> 9

IsDigits(s) == Len(s) > 0 /\ \A i \in 1..Len(s) : s[i] \in Digits

\* int(s), for a string of decimal digits
RECURSIVE ParseInt(_)
ParseInt(s) ==
    IF Len(s) = 0 THEN 0
    ELSE 10 * ParseInt(SubSeq(s, 1, Len(s) - 1)) + DigitVal(s[Len(s)])

\* str.endswith(suf)
EndsWith(s, suf) ==
    /\ Len(s) >= Len(suf)
    /\ SubSeq(s, Len(s) - Len(suf) + 1, Len(s)) = suf

StartsWith(s, pre) ==
    /\ Len(s) >= Len(pre)
    /\ SubSeq(s, 1, Len(pre)) = pre

\* s.split(sep)[-1]
LastField(s, sep) ==
    LET at == {i \in 1..Len(s) : s[i] = sep}
    IN  IF at = {} THEN s ELSE SubSeq(s, Max(at) + 1, Len(s))

\* s.split(sep)[0]
FirstField(s, sep) ==
    LET at == {i \in 1..Len(s) : s[i] = sep}
    IN  IF at = {} THEN s
        ELSE SubSeq(s, 1, (CHOOSE i \in at : \A j \in at : i <= j) - 1)

\* re.split(r'\t+', s): the fields between runs of tabs
RECURSIVE SplitTabs(_)
SplitTabs(s) ==
    LET at == {i \in 1..Len(s) : s[i] = "\t"}
    IN  IF at = {} THEN << s >>
        ELSE LET i == CHOOSE k \in at : \A j \in at : k <= j
                 after == {j \in (i + 1)..Len(s) : s[j] # "\t"}
                 j == IF after = {} THEN Len(s) + 1
                      ELSE CHOOSE k \in after : \A m \in after : k <= m
             IN  << SubSeq(s, 1, i - 1) >> \o SplitTabs(SubSeq(s, j, Len(s)))

\* line.strip(): the line without the white space at its ends
RECURSIVE Strip(_)
Strip(s) ==
    LET ws == {" ", "\t", "\n"}
    IN  IF Len(s) > 0 /\ s[1] \in ws THEN Strip(Tail(s))
        ELSE IF Len(s) > 0 /\ s[Len(s)] \in ws
             THEN Strip(SubSeq(s, 1, Len(s) - 1))
             ELSE s

-----------------------------------------------------------------------------
(* Paths *)

Slash == << "/" >>

\* "%s/%s" % (a, b)
Join(a, b) == a \o Slash \o b

\* The path as the filesystem resolves it: runs of "/" are one "/", a
\* trailing "/" names the same directory.
RECURSIVE Norm(_)
Norm(p) ==
    IF Len(p) <= 1 THEN p
    ELSE IF p[Len(p)] = "/" THEN Norm(SubSeq(p, 1, Len(p) - 1))
    ELSE IF \E i \in 1..(Len(p) - 1) : p[i] = "/" /\ p[i + 1] = "/"
         THEN LET i == CHOOSE k \in 1..(Len(p) - 1) : p[k] = "/" /\ p[k + 1] = "/"
              IN  Norm(SubSeq(p, 1, i) \o SubSeq(p, i + 2, Len(p)))
         ELSE p

\* The directories above a normalised path
Parents(p) == {SubSeq(p, 1, i - 1) : i \in {k \in 2..Len(p) : p[k] = "/"}}

\* pathlib.Path(p).mkdir(parents=True, exist_ok=True)
Mkdir(files, p) == files \cup {Norm(p)} \cup Parents(Norm(p))

\* a file written by a tool into an existing directory
Under(dir, p) == StartsWith(Norm(p), Norm(dir) \o Slash)

\* rm -rf p
RmRf(files, p) == {q \in files : q # Norm(p) /\ ~Under(p, q)}

-----------------------------------------------------------------------------
(* The command lines and environments the model runs the program on *)

F_bam  == << "a", ".", "b", "a", "m" >>
F_BAM  == << "a", ".", "B", "A", "M" >>
F_Bam  == << "a", ".", "B", "a", "m" >>
F_cram == << "a", ".", "c", "r", "a", "m" >>
F_CRAM == << "a", ".", "C", "R", "A", "M" >>
F_cRam == << "a", ".", "c", "R", "a", "m" >>
F_txt  == << "a", ".", "t", "x", "t" >>
F_path == << "d", "/", "b", ".", "x", ".", "b", "a", "m" >>

InputFiles == {F_bam, F_BAM, F_Bam, F_cram, F_CRAM, F_cRam, F_txt, F_path}

OutputDirs == { << "o" >>, << ".", "/" >> }

TmpDirs == { None, << "t" >>, << "o" >> }

Coverages == { << "2" >>, << "1", "5" >> }

SampleNames == { None, << "s" >> }

Threads == { << "4" >>, << "x" >> }

LogLevels == { "DEBUG", "info", "verbose" }

\* Lines of a mosdepth summary: contig, length, bases
L_chr1  == << "c", "h", "r", "1", "\t", "2", "\t", "3", "0", "\n" >>
L_2     == << "2", "\t", "2", "\t", "4", "\n" >>
L_chrX  == << "c", "h", "r", "X", "\t", "2", "\t", "8", "\n" >>
L_unloc == << "c", "h", "r", "1", "_", "K", "\t", "1", "\t", "9", "\n" >>
L_total == << "t", "o", "t", "a", "l", "\t", "7", "\t", "5", "1", "\n" >>

Lines == {L_chr1, L_2, L_chrX, L_unloc, L_total}

Reports == UNION {[1..n -> Lines] : n \in 1..MaxRows}

-----------------------------------------------------------------------------
(* Python values and the logger *)

\* argparse stores every option given without type= as a str
PyStr(s) == [type |-> "str", val |-> s]

\* a float, kept as the exact quotient num/den
PyFloat(n, d) == [type |-> "float", num |-> n, den |-> d]

NoValue == [type |-> "NoneType"]

\* a >= b: Python 3 orders two floats and refuses to order a str and a float
PyGE(a, b) ==
    IF a.type = "float" /\ b.type = "float"
    THEN IF a.num * b.den >= b.num * a.den THEN "True" ELSE "False"
    ELSE "TypeError"

LevelNo(name) ==
    CASE name = "DEBUG" -> 10 [] name = "INFO" -> 20 [] name = "WARNING" -> 30
      [] name = "ERROR" -> 40 [] name = "CRITICAL" -> 50

LevelNames == {"DEBUG", "INFO", "WARNING", "ERROR", "CRITICAL"}

\* loglevel.upper()
Upper(l) ==
    CASE l = "DEBUG" -> "DEBUG" [] l = "info" -> "INFO"
      [] l = "verbose" -> "VERBOSE"

\* logging.<level>(msg): the record is emitted when the level passes the filter
Emit(l, level, msg) ==
    IF LevelNo(level) >= LevelNo(logLevel)
    THEN Append(l, [level |-> level, msg |-> msg])
    ELSE l

MsgInversion == "Needed coverage is more than the CRAM's coverage: unable to downsample."

\* logging.error(msg); sys.exit(1), after the records l were logged
Exit1(stage, l, msg) ==
    /\ pc' = "exited"
    /\ exitStatus' = 1
    /\ log' = Emit(l, "ERROR", msg)
    /\ failed' = stage
    /\ exception' = exception

\* an exception nothing catches: the interpreter prints the traceback and
\* exits with status 1
Raise(l, exc) ==
    /\ pc' = "exited"
    /\ exitStatus' = 1
    /\ log' = l
    /\ exception' = exc
    /\ failed' = failed

\* the call returned: the driver goes on to its next call
Return(l, next) ==
    /\ pc' = next
    /\ log' = l
    /\ UNCHANGED <<exitStatus, exception, failed>>

-----------------------------------------------------------------------------
(* The functions of the source that compute a value *)

\* seed number to make result reproducible
seed == 10

\* Mutant of FileKind: the file name is lower-cased before the comparison.
FileKind_AnyCase(input_file) ==
    LET lowered == [i \in 1..Len(input_file) |->
                        CASE input_file[i] = "B" -> "b" [] input_file[i] = "A" -> "a"
                          [] input_file[i] = "M" -> "m" [] input_file[i] = "C" -> "c"
                          [] input_file[i] = "R" -> "r" [] OTHER -> input_file[i]]
    IN  IF EndsWith(lowered, << ".", "c", "r", "a", "m" >>) THEN "cram"
        ELSE IF EndsWith(lowered, << ".", "b", "a", "m" >>) THEN "bam"
             ELSE "exit"

\* check_type: the kind returned, or "exit" for sys.exit(1)
FileKind(input_file) ==
    IF EndsWith(input_file, << ".", "c", "r", "a", "m" >>)
       \/ EndsWith(input_file, << ".", "C", "R", "A", "M" >>)
    THEN "cram"
    ELSE IF EndsWith(input_file, << ".", "b", "a", "m" >>)
            \/ EndsWith(input_file, << ".", "B", "A", "M" >>)
         THEN "bam"
         ELSE "exit"

\* get_ID
SampleIdOf(input_file, sample_name) ==
    IF sample_name # None THEN sample_name
    ELSE FirstField(LastField(input_file, "/"), ".")

\* temp_output_loc: the value of tempLoc
TempLoc(out_dir, tmp, id, c) ==
    IF tmp # None
    THEN Join(Join(tmp, id), c \o << "x" >>)
    ELSE Join(Join(out_dir, id), << "t", "m", "p" >>)

\* downsample_bam: out_prefix and the path of the downsampled file
OutPrefix(output_dir, id, c) == Join(Join(output_dir, id), c \o << "x" >>)

SubsamBam(output_dir, id, c) ==
    Join(OutPrefix(output_dir, id, c),
         id \o << ".", "d", "u", "p", "R", "m", ".", "s", "u", "b", "s", "a", "m",
                 ".", "b", "a", "m" >>)

\* remove_dup: the path of the sanitised file
DupRmBam(tempLoc, id) ==
    Join(tempLoc, id \o << ".", "d", "u", "p", "R", "m", ".", "b", "a", "m" >>)

\* get_coverage: the summary file mosdepth writes
SummaryFile(sub_tmp, id) ==
    Join(sub_tmp, id \o << ".", "m", "o", "s", "d", "e", "p", "t", "h", ".",
                          "s", "u", "m", "m", "a", "r", "y", ".", "t", "x", "t" >>)

\* re.search(r"^[0-9]{1,2}", line) or re.search(r"^chr[0-9]{1,2}", line)
RowMatches(line) ==
    \/ Len(line) >= 1 /\ line[1] \in Digits
    \/ /\ Len(line) >= 4
       /\ SubSeq(line, 1, 3) = << "c", "h", "r" >>
       /\ line[4] \in Digits

\* get_coverage: the loop over the lines of the summary, <<length, bases>>
RECURSIVE Accumulate(_)
Accumulate(lines) ==
    IF Len(lines) = 0 THEN << 0, 0 >>
    ELSE LET before == Accumulate(SubSeq(lines, 1, Len(lines) - 1))
             line == lines[Len(lines)]
             array_line == SplitTabs(Strip(line))
         IN  IF RowMatches(line)
             THEN << before[1] + ParseInt(array_line[2]),
                     before[2] + ParseInt(array_line[3]) >>
             ELSE before

-----------------------------------------------------------------------------
(* The state when the interpreter enters the driver *)

Init ==
    /\ \E f \in InputFiles, o \in OutputDirs, c \in Coverages, th \in Threads,
          n \in SampleNames, skip \in BOOLEAN, t \in TmpDirs, l \in LogLevels :
            args = [input_file |-> f, output_dir |-> o, coverage |-> c,
                    thread |-> th, sample_name |-> n, skip_dupRm |-> skip,
                    tmp |-> t, loglevel |-> l]
    /\ \E w \in BOOLEAN, m \in BOOLEAN, sb \in BOOLEAN :
            env = [which |-> w, mosdepth |-> m, sambamba |-> sb]
    /\ \E present \in BOOLEAN :
            fs = IF present THEN Mkdir({}, args.input_file) ELSE {}
    /\ pc = "parse_args"
    /\ logLevel = "WARNING"
    /\ log = << >>
    /\ exitStatus = -1
    /\ exception = "none"
    /\ file_type = "None"
    /\ sampleID = None
    /\ tempFolder = None
    /\ dupRemovedBam = None
    /\ cov = NoValue
    /\ fraction = NoValue
    /\ downsampledBam = None
    /\ newCov = NoValue
    /\ report = << >>
    /\ started = << >>
    /\ failed = "none"
    /\ calls = << >>

locals == <<file_type, sampleID, tempFolder, dupRemovedBam, cov, fraction,
            downsampledBam, newCov>>

-----------------------------------------------------------------------------
(* The calls of the driver *)

\* args = parse_args(): the checks after the parse.  subprocess.call returns
\* the exit status of `which` and raises only when `which` itself cannot be
\* run; the status is not looked at.
parse_args ==
    /\ pc = "parse_args"
    /\ IF Norm(args.input_file) \notin fs
       THEN /\ Exit1("parse_args", log, "Input file not found")
            /\ fs' = fs
       ELSE /\ fs' = Mkdir(fs, args.output_dir)
            /\ IF ~env.which
               THEN Exit1("parse_args", log, "mosdepth not found")
               ELSE Return(log, "set_logging")
    /\ UNCHANGED <<args, env, logLevel, locals, report, started, calls>>

\* set_logging(args.loglevel)
set_logging ==
    /\ pc = "set_logging"
    /\ IF Upper(args.loglevel) \notin LevelNames
       THEN Raise(log, "ValueError") /\ logLevel' = logLevel
       ELSE Return(log, "check_type") /\ logLevel' = Upper(args.loglevel)
    /\ UNCHANGED <<args, env, fs, locals, report, started, calls>>

\* file_type = check_type(args.input_file)
check_type ==
    /\ pc = "check_type"
    /\ started' = Append(started, "check_type")
    /\ LET kind == FileKind(args.input_file)
       IN  IF kind = "exit"
           THEN /\ Exit1("check_type", log, "input_file is not bam or cram. Dying now!")
                /\ file_type' = file_type
           ELSE /\ Return(log, "get_ID")
                /\ file_type' = kind
    /\ UNCHANGED <<args, env, fs, logLevel, sampleID, tempFolder, dupRemovedBam,
                   cov, fraction, downsampledBam, newCov, report, calls>>

\* sampleID = get_ID(args.input_file, args.sample_name)
get_ID ==
    /\ pc = "get_ID"
    /\ started' = Append(started, "get_ID")
    /\ sampleID' = SampleIdOf(args.input_file, args.sample_name)
    /\ Return(log, "temp_output_loc")
    /\ UNCHANGED <<args, env, fs, logLevel, file_type, tempFolder, dupRemovedBam,
                   cov, fraction, downsampledBam, newCov, report, calls>>

\* tempFolder = temp_output_loc(args.output_dir, args.tmp, sampleID, args.coverage)
\* Without --tmp the function reads args.out_dir of the Namespace, which has
\* output_dir and no out_dir: AttributeError, before any directory is made.
temp_output_loc ==
    /\ pc = "temp_output_loc"
    /\ started' = Append(started, "temp_output_loc")
    /\ LET tempLoc == TempLoc(args.output_dir, args.tmp, sampleID, args.coverage)
           l1 == Emit(log, "INFO", "Creating temp folder")
       IN  IF args.tmp # None
           THEN /\ fs' = Mkdir(fs, tempLoc)
                /\ tempFolder' = tempLoc
                /\ Return(l1, "remove_dup")
           ELSE /\ Raise(l1, "AttributeError")
                /\ UNCHANGED <<fs, tempFolder>>
    /\ UNCHANGED <<args, env, logLevel, file_type, sampleID, dupRemovedBam,
                   cov, fraction, downsampledBam, newCov, report, calls>>

\* What os.system makes of a tool: a tool that is not on the search path, or
\* whose output directory does not exist, exits non-zero; otherwise it
\* succeeds or fails.  ok: exit status 0; wrote: the output file is there.
ToolOutcomes(onPath, files, outDir) ==
    IF onPath /\ Norm(outDir) \in files
    THEN {[ok |-> TRUE, wrote |-> TRUE], [ok |-> FALSE, wrote |-> TRUE],
          [ok |-> FALSE, wrote |-> FALSE]}
    ELSE {[ok |-> FALSE, wrote |-> FALSE]}

\* Mutant of remove_dup: the status os.system returns is not looked at, and
\* the path of the sanitised file is returned whatever sambamba did.
remove_dup_Unchecked ==
    /\ pc = "remove_dup"
    /\ started' = Append(started, "remove_dup")
    /\ LET l1 == Emit(log, "INFO", "Sanitising input")
           l2 == IF args.skip_dupRm
                 THEN Emit(l1, "INFO", "Not removing duplicates reads") ELSE l1
           filterString ==
               IF args.skip_dupRm
               THEN "not (unmapped or mate_is_unmapped) and paired"
               ELSE "not (unmapped or mate_is_unmapped) and paired and not duplicate"
           cram == IF file_type = "bam" THEN "" ELSE "-C"
           bamLoc == DupRmBam(tempFolder, sampleID)
       IN  IF ~IsDigits(args.thread)
           THEN /\ Raise(l2, "ValueError")
                /\ UNCHANGED <<fs, dupRemovedBam, calls>>
           ELSE \E out \in ToolOutcomes(env.sambamba, fs, tempFolder) :
                /\ calls' = Append(calls,
                       [tool |-> "sambamba", in |-> args.input_file, out |-> bamLoc,
                        ok |-> out.ok,
                        opts |-> [F |-> filterString, C |-> cram,
                                  t |-> ParseInt(args.thread)]])
                /\ fs' = IF out.wrote THEN fs \cup {Norm(bamLoc)} ELSE fs
                /\ Return(Emit(l2, "INFO", "Sanitised bam found"), "get_coverage_R1")
                /\ dupRemovedBam' = bamLoc
    /\ UNCHANGED <<args, env, logLevel, file_type, sampleID, tempFolder,
                   cov, fraction, downsampledBam, newCov, report>>

\* dupRemovedBam = remove_dup(args.input_file, tempFolder, file_type, sampleID,
\*                            args.skip_dupRm, args.thread)
remove_dup ==
    /\ pc = "remove_dup"
    /\ started' = Append(started, "remove_dup")
    /\ LET l1 == Emit(log, "INFO", "Sanitising input")
           l2 == IF args.skip_dupRm
                 THEN Emit(l1, "INFO", "Not removing duplicates reads") ELSE l1
           filterString ==
               IF args.skip_dupRm
               THEN "not (unmapped or mate_is_unmapped) and paired"
               ELSE "not (unmapped or mate_is_unmapped) and paired and not duplicate"
           cram == IF file_type = "bam" THEN "" ELSE "-C"
           bamLoc == DupRmBam(tempFolder, sampleID)
       IN  IF ~IsDigits(args.thread)
           THEN /\ Raise(l2, "ValueError")
                /\ UNCHANGED <<fs, dupRemovedBam, calls>>
           ELSE \E out \in ToolOutcomes(env.sambamba, fs, tempFolder) :
                /\ calls' = Append(calls,
                       [tool |-> "sambamba", in |-> args.input_file, out |-> bamLoc,
                        ok |-> out.ok,
                        opts |-> [F |-> filterString, C |-> cram,
                                  t |-> ParseInt(args.thread)]])
                /\ fs' = IF out.wrote THEN fs \cup {Norm(bamLoc)} ELSE fs
                /\ IF ~out.ok
                   THEN /\ Exit1("remove_dup", l2,
                                 "Sambamba sanitising bam/cram failed. Dying now.")
                        /\ dupRemovedBam' = dupRemovedBam
                   ELSE /\ Return(Emit(l2, "INFO", "Sanitised bam found"),
                                  "get_coverage_R1")
                        /\ dupRemovedBam' = bamLoc
    /\ UNCHANGED <<args, env, logLevel, file_type, sampleID, tempFolder,
                   cov, fraction, downsampledBam, newCov, report>>

\* Mutant of get_coverage: the workspace is removed before the process exits
\* on a failure of mosdepth.
get_coverage_Cleanup(Bam, subfolder, stage, next) ==
    /\ pc = stage
    /\ started' = Append(started, stage)
    /\ LET sub_tmp == Join(tempFolder, subfolder)
           made == Mkdir(fs, sub_tmp)
           summary_file == SummaryFile(sub_tmp, sampleID)
       IN  \E out \in ToolOutcomes(env.mosdepth, made, sub_tmp), r \in Reports :
           /\ calls' = Append(calls,
                  [tool |-> "mosdepth", in |-> Bam, out |-> Join(sub_tmp, sampleID),
                   ok |-> out.ok, opts |-> [threads |-> 4]])
           /\ IF ~out.ok
              THEN /\ r = CHOOSE x \in Reports : TRUE
                   /\ fs' = RmRf(made, tempFolder)
                   /\ Exit1(stage, log, "Get coverage failed. Dying now.")
                   /\ UNCHANGED <<cov, newCov, report>>
              ELSE LET sums == Accumulate(r)
                   IN  /\ report' = r
                       /\ fs' = made \cup {Norm(summary_file)}
                       /\ IF sums[1] = 0
                          THEN /\ Raise(log, "ZeroDivisionError")
                               /\ UNCHANGED <<cov, newCov>>
                          ELSE /\ Return(Emit(log, "INFO", "coverage is"), next)
                               /\ cov' = IF subfolder = << "R", "1" >>
                                         THEN PyFloat(sums[2], sums[1]) ELSE cov
                               /\ newCov' = IF subfolder = << "R", "2" >>
                                            THEN PyFloat(sums[2], sums[1]) ELSE newCov
    /\ UNCHANGED <<args, env, logLevel, file_type, sampleID, tempFolder,
                   dupRemovedBam, fraction, downsampledBam>>

\* get_coverage(Bam, sampleID, tempFolder, subfolder); the driver stores the
\* value returned in cov (subfolder "R1") or in newCov (subfolder "R2").
get_coverage(Bam, subfolder, stage, next) ==
    /\ pc = stage
    /\ started' = Append(started, stage)
    /\ LET sub_tmp == Join(tempFolder, subfolder)
           made == Mkdir(fs, sub_tmp)
           summary_file == SummaryFile(sub_tmp, sampleID)
       IN  \E out \in ToolOutcomes(env.mosdepth, made, sub_tmp), r \in Reports :
           /\ calls' = Append(calls,
                  [tool |-> "mosdepth", in |-> Bam, out |-> Join(sub_tmp, sampleID),
                   ok |-> out.ok, opts |-> [threads |-> 4]])
           /\ fs' = IF out.wrote THEN made \cup {Norm(summary_file)} ELSE made
           /\ IF ~out.ok
              THEN /\ r = CHOOSE x \in Reports : TRUE
                   /\ Exit1(stage, log, "Get coverage failed. Dying now.")
                   /\ UNCHANGED <<cov, newCov, report>>
              ELSE LET sums == Accumulate(r)
                       length == sums[1]
                       bases == sums[2]
                   IN  /\ report' = r
                       /\ IF length = 0
                          THEN /\ Raise(log, "ZeroDivisionError")
                               /\ UNCHANGED <<cov, newCov>>
                          ELSE /\ Return(Emit(log, "INFO", "coverage is"), next)
                               /\ cov' = IF subfolder = << "R", "1" >>
                                         THEN PyFloat(bases, length) ELSE cov
                               /\ newCov' = IF subfolder = << "R", "2" >>
                                            THEN PyFloat(bases, length) ELSE newCov
    /\ UNCHANGED <<args, env, logLevel, file_type, sampleID, tempFolder,
                   dupRemovedBam, fraction, downsampledBam>>

\* cov = get_coverage(dupRemovedBam, sampleID, tempFolder, "R1")
get_coverage_R1 ==
    get_coverage(dupRemovedBam, << "R", "1" >>, "get_coverage_R1", "get_fraction")

\* float(s) of a str of decimal digits; the coverage strings are such
PyFloatOf(v) ==
    IF v.type = "float" THEN v ELSE PyFloat(ParseInt(v.val), 1)

\* fraction = get_fraction(args.coverage, cov).  args.coverage is the str
\* argparse stored; the comparison is the first thing evaluated.
get_fraction ==
    /\ pc = "get_fraction"
    /\ started' = Append(started, "get_fraction")
    /\ LET neededCov == PyStr(args.coverage)
           bamCov == cov
           ge == PyGE(neededCov, bamCov)
       IN  IF ge = "TypeError"
           THEN /\ Raise(log, "TypeError")
                /\ fraction' = fraction
           ELSE IF ge = "True"
           THEN /\ IF neededCov.type = "float"
                   THEN Exit1("get_fraction", log, MsgInversion)
                   ELSE Raise(log, "TypeError")     \* "%f" % a str
                /\ fraction' = fraction
           ELSE LET n == PyFloatOf(neededCov)
                    b == PyFloatOf(bamCov)
                IN  IF b.num = 0
                    THEN /\ Raise(log, "ZeroDivisionError")
                         /\ fraction' = fraction
                    ELSE /\ fraction' = PyFloat(n.num * b.den, n.den * b.num)
                         /\ Return(Emit(log, "INFO", "Downsampling CRAM with factor"),
                                   "downsample_bam")
    /\ UNCHANGED <<args, env, fs, logLevel, file_type, sampleID, tempFolder,
                   dupRemovedBam, cov, downsampledBam, newCov, report, calls>>

\* downsampledBam = downsample_bam(dupRemovedBam, args.output_dir, sampleID,
\*                                 fraction, seed, args.coverage)
downsample_bam ==
    /\ pc = "downsample_bam"
    /\ started' = Append(started, "downsample_bam")
    /\ LET out_prefix == OutPrefix(args.output_dir, sampleID, args.coverage)
           made == Mkdir(fs, out_prefix)
           bamLoc == SubsamBam(args.output_dir, sampleID, args.coverage)
           l1 == Emit(log, "INFO", "Downsampling")
       IN  \E out \in ToolOutcomes(env.sambamba, made, out_prefix) :
           /\ calls' = Append(calls,
                  [tool |-> "sambamba", in |-> dupRemovedBam, out |-> bamLoc,
                   ok |-> out.ok, opts |-> [s |-> fraction, seed |-> seed]])
           /\ fs' = IF out.wrote THEN made \cup {Norm(bamLoc)} ELSE made
           /\ IF ~out.ok
              THEN /\ Exit1("downsample_bam", l1,
                            "Sambamba downsampling failed. Dying now.")
                   /\ downsampledBam' = downsampledBam
              ELSE /\ Return(Emit(l1, "INFO", "Downsampled bam found"),
                             "get_coverage_R2")
                   /\ downsampledBam' = bamLoc
    /\ UNCHANGED <<args, env, logLevel, file_type, sampleID, tempFolder,
                   dupRemovedBam, cov, fraction, newCov, report>>

\* newCov = get_coverage(downsampledBam, sampleID, tempFolder, "R2")
get_coverage_R2 ==
    get_coverage(downsampledBam, << "R", "2" >>, "get_coverage_R2", "cleanUp")

\* cleanUp(tempFolder): the status of rm is not looked at; the driver ends
\* after it and the interpreter exits with status 0.
cleanUp ==
    /\ pc = "cleanUp"
    /\ started' = Append(started, "cleanUp")
    /\ calls' = Append(calls, [tool |-> "rm", in |-> tempFolder, out |-> None,
                               ok |-> TRUE, opts |-> [rf |-> TRUE]])
    /\ fs' = RmRf(fs, tempFolder)
    /\ log' = Emit(Emit(log, "INFO", "Cleaning up, deleting"), "INFO", "Done!")
    /\ pc' = "done"
    /\ exitStatus' = 0
    /\ UNCHANGED <<args, env, logLevel, locals, report, exception, failed>>

-----------------------------------------------------------------------------
(* The specifications *)

\* The calls a run of the driver can reach.  get_fraction never returns (see
\* SubsamplerNeverRuns), so the three calls after it are not steps of any run.
Next ==
    \/ parse_args
    \/ set_logging
    \/ check_type
    \/ get_ID
    \/ temp_output_loc
    \/ remove_dup
    \/ get_coverage_R1
    \/ get_fraction

Spec == Init /\ [][Next]_vars

\* The driver as written, with the calls after get_fraction.
DriverNext == Next \/ downsample_bam \/ get_coverage_R2 \/ cleanUp

DriverSpec == Init /\ [][DriverNext]_vars

\* Under DriverSpec: no run gets past get_fraction, so DriverSpec and Spec
\* have the same runs.
SubsamplerNeverRuns ==
    /\ pc \notin {"downsample_bam", "get_coverage_R2", "cleanUp", "done"}
    /\ \A i \in 1..Len(calls) :
           /\ calls[i].tool # "rm"
           /\ calls[i].tool = "sambamba" => calls[i].in = args.input_file
    /\ exitStatus # 0

-----------------------------------------------------------------------------
(* What the claims speak of *)

\* the stage has been started
Has(stage) == \E i \in 1..Len(started) : started[i] = stage

Last(q) == q[Len(q)]

\* --coverage taken as a number
Target == ParseInt(args.coverage)

\* the coverage the first pass of the estimator returned
Observed == cov

HasObserved == cov.type = "float"

InversionLogged == \E i \in 1..Len(log) : log[i].msg = MsgInversion

SubsamplerInvoked ==
    \E i \in 1..Len(calls) :
        calls[i].tool = "sambamba" /\ calls[i].in # args.input_file

\* the workspace and the final output, as the specification lays them out
SampleId == SampleIdOf(args.input_file, args.sample_name)

Workspace ==
    IF args.tmp # None
    THEN Join(Join(args.tmp, SampleId), args.coverage \o << "x" >>)
    ELSE Join(Join(args.output_dir, SampleId), << "t", "m", "p" >>)

FinalOutput ==
    Join(Join(Join(args.output_dir, SampleId), args.coverage \o << "x" >>),
         SampleId \o << ".", "d", "u", "p", "R", "m", ".", "s", "u", "b", "s", "a",
                        "m", ".", "b", "a", "m" >>)

LowerChar(c) ==
    CASE c = "B" -> "b" [] c = "A" -> "a" [] c = "M" -> "m" [] c = "C" -> "c"
      [] c = "R" -> "r" [] OTHER -> c

Lower(s) == [i \in 1..Len(s) |-> LowerChar(s[i])]

\* the suffix of the file name: from its last dot on
Suffix(f) ==
    LET name == LastField(f, "/")
        dots == {i \in 1..Len(name) : name[i] = "."}
    IN  IF dots = {} THEN << >> ELSE SubSeq(name, Max(dots), Len(name))

DotBam == << ".", "b", "a", "m" >>

DotCram == << ".", "c", "r", "a", "m" >>

\* the contig is an autosome 1-22, named with or without the chr prefix
IsAutosome(name) ==
    LET num == IF StartsWith(name, << "c", "h", "r" >>)
               THEN SubSeq(name, 4, Len(name)) ELSE name
    IN  /\ IsDigits(num)
        /\ Len(num) <= 2
        /\ num[1] # "0"
        /\ ParseInt(num) \in 1..22

\* <<sum of length, sum of basesCovered>> over the autosome rows of a report
RECURSIVE AutosomeSums(_)
AutosomeSums(lines) ==
    IF Len(lines) = 0 THEN << 0, 0 >>
    ELSE LET before == AutosomeSums(SubSeq(lines, 1, Len(lines) - 1))
             row == SplitTabs(Strip(lines[Len(lines)]))
         IN  IF IsAutosome(row[1])
             THEN << before[1] + ParseInt(row[2]), before[2] + ParseInt(row[3]) >>
             ELSE before

StageOrder ==
    << "check_type", "get_ID", "temp_output_loc", "remove_dup", "get_coverage_R1",
       "get_fraction", "downsample_bam", "get_coverage_R2", "cleanUp" >>

-----------------------------------------------------------------------------
(* The claims *)

\* C1 (as claimed): once the fraction calculator has run with the target
\* coverage greater than or equal to the observed coverage, the process has
\* logged the coverage-inversion error and terminated with non-zero status,
\* no fraction was returned and the subsampler was never invoked.
C1_InversionIsReported ==
    (Has("get_fraction") /\ HasObserved /\ Target * Observed.den >= Observed.num)
        => /\ pc = "exited"
           /\ exitStatus # 0
           /\ InversionLogged
           /\ fraction = NoValue
           /\ ~SubsamplerInvoked

\* C3 (as claimed): after a run in which no stage failed (the input was
\* there, its suffix was recognised, every tool that ran exited 0 and the
\* target coverage is below the observed one), the workspace directory does
\* not exist and the downsampled file exists at
\* {output_dir}/{sampleID}/{coverage}x/{sampleID}.dupRm.subsam.bam.
C3_SuccessfulRunCleansUp ==
    (/\ pc \in {"done", "exited"}
     /\ failed = "none"
     /\ HasObserved
     /\ Target * Observed.den < Observed.num)
        => /\ Norm(Workspace) \notin fs
           /\ Norm(FinalOutput) \in fs

\* C4 (as claimed): when the input file does not exist or mosdepth or
\* sambamba is not on the search path, argument validation ends the process
\* with status 1 before a workspace is made and before any stage is started.
C4_ValidationRejects ==
    (/\ pc # "parse_args"
     /\ \/ Norm(args.input_file) \notin fs
        \/ ~env.mosdepth
        \/ ~env.sambamba)
        => /\ pc = "exited"
           /\ exitStatus = 1
           /\ started = << >>
           /\ calls = << >>
           /\ Norm(Workspace) \notin fs

\* C5 (as claimed): once the workspace manager has run, in either addressing
\* mode, it has returned the workspace path and the directory at that path
\* exists.
C5_WorkspaceExists ==
    Has("temp_output_loc")
        => /\ tempFolder = Workspace
           /\ Norm(tempFolder) \in fs

\* C6 (as claimed): the classifier compares the suffix without regard to
\* letter case: .bam in any case gives bam, .cram in any case gives cram, any
\* other suffix ends the process with non-zero status and no kind.
C6_CaseInsensitive ==
    Has("check_type")
        => LET suf == Lower(Suffix(args.input_file))
           IN  /\ suf = DotBam => file_type = "bam"
               /\ suf = DotCram => file_type = "cram"
               /\ suf \notin {DotBam, DotCram}
                    => pc = "exited" /\ exitStatus # 0 /\ file_type = "None"

\* C6 (amended): the classifier compares the suffix with the four spellings
\* .bam, .BAM, .cram, .CRAM: the first two give bam, the last two give cram,
\* and every other suffix, a mixed-case one such as .Bam included, ends the
\* process with non-zero status at the classifier and no kind.
C6_FourSpellings ==
    Has("check_type")
        => LET suf == Suffix(args.input_file)
           IN  /\ suf \in {DotBam, << ".", "B", "A", "M" >>} => file_type = "bam"
               /\ suf \in {DotCram, << ".", "C", "R", "A", "M" >>}
                    => file_type = "cram"
               /\ suf \notin {DotBam, << ".", "B", "A", "M" >>,
                              DotCram, << ".", "C", "R", "A", "M" >>}
                    => /\ pc = "exited"
                       /\ exitStatus # 0
                       /\ failed = "check_type"
                       /\ file_type = "None"

\* C6 witness: a file with the mixed-case suffix .Bam was rejected by the
\* classifier.
C6_MixedCaseRejected ==
    /\ args.input_file = F_Bam
    /\ Has("check_type")
    /\ failed = "check_type"

\* C7 (as claimed): the coverage the estimator returns is
\* sum(basesCovered)/sum(length) over exactly the rows of autosomes 1-22, with
\* or without the chr prefix; no other row contributes.
C7_AutosomesOnly ==
    HasObserved
        => LET sums == AutosomeSums(report)
           IN  /\ sums[1] > 0
               /\ Observed.num * sums[1] = sums[2] * Observed.den

\* C9: the stages start in the fixed order, each only after the one before it
\* returned; a stage that fails (a tool exits non-zero, the suffix is not
\* recognised, the coverage is inverted) ends the process with non-zero
\* status, and it is the last stage started.
C9_StageOrder ==
    /\ Len(started) <= Len(StageOrder)
    /\ \A i \in 1..Len(started) : started[i] = StageOrder[i]
    /\ pc \notin {"parse_args", "set_logging", "exited", "done"}
         => pc = StageOrder[Len(started) + 1]
    /\ pc = "exited" => exitStatus # 0
    /\ failed \notin {"none", "parse_args"}
         => pc = "exited" /\ exitStatus # 0 /\ Last(started) = failed
    /\ \A i \in 1..Len(calls) : ~calls[i].ok => pc = "exited" /\ exitStatus # 0
    /\ (Has("check_type") /\ Suffix(args.input_file) \notin
            {DotBam, << ".", "B", "A", "M" >>, DotCram, << ".", "C", "R", "A", "M" >>})
         => pc = "exited" /\ exitStatus # 0 /\ Last(started) = "check_type"

\* C9 witness: the first pass of the estimator failed after the four stages
\* before it, and the process ended there.
C9_EstimatorFailed ==
    /\ pc = "exited"
    /\ failed = "get_coverage_R1"
    /\ Len(started) = 5
    /\ calls[1].ok /\ ~calls[2].ok

\* C10: when the process has ended on an error after the workspace was made,
\* the workspace directory and every intermediate written into it still
\* exist, and rm was never run.
C10_WorkspaceLeftBehind ==
    (pc = "exited" /\ tempFolder # None)
        => /\ Norm(tempFolder) \in fs
           /\ dupRemovedBam # None => Norm(dupRemovedBam) \in fs
           /\ \A i \in 1..Len(calls) :
                /\ calls[i].tool # "rm"
                /\ (calls[i].tool = "mosdepth" /\ calls[i].ok)
                     => Norm(SummaryFile(Join(tempFolder, << "R", "1" >>), sampleID))
                            \in fs
           /\ Has("get_coverage_R1")
                => Norm(Join(tempFolder, << "R", "1" >>)) \in fs

\* C10 witness: the process ended in the fraction calculator with the
\* sanitised file and the first summary written into the workspace.
C10_EndedInFractionCalculator ==
    /\ pc = "exited"
    /\ Has("get_fraction")
    /\ Norm(dupRemovedBam) \in fs
    /\ Norm(SummaryFile(Join(tempFolder, << "R", "1" >>), sampleID)) \in fs

=============================================================================
